---------------------------- MODULE Spec2Model ----------------------------
(***************************************************************************)
(* A model of tensorflow_federated/python/core/impl/func_utils.py:         *)
(* the ArgSpec binder (get_callargs_for_argspec), the compatibility        *)
(* checker (is_argspec_compatible_with_types), the tuple classifier        *)
(* (is_argument_tuple, unpack_args_from_tuple,                             *)
(* pack_args_into_anonymous_tuple), the adapter builder                    *)
(* (wrap_as_zero_or_one_arg_callable) and the specialization cache         *)
(* (PolymorphicFunction).                                                  *)
(*                                                                         *)
(* Python objects are records [kind, tag, elems]:                          *)
(*   kind "TensorType"      tag = dtype and shape                          *)
(*   kind "NamedTupleType"  elems = <<name, element type>> pairs           *)
(*   kind "AnonymousTuple"  elems = <<name, value>> pairs                  *)
(*   kind "pyspec"          a Python list of (name, type) pairs, which     *)
(*                          types.to_type() converts to a NamedTupleType   *)
(*   kind "value"           a Python value, tag names it                   *)
(*   kind "None"            Python's None                                  *)
(* An element name of "" is Python's None (an unnamed element); both are   *)
(* falsy, which is all the code asks of a name.                            *)
(***************************************************************************)
EXTENDS Integers, Sequences, FiniteSets, TLC

VARIABLES
  phase,          \* which step of the current scenario has been taken
  argspec,        \* the inspect.ArgSpec of the callable
  args,           \* positional arguments of the call under study
  kwargs,         \* keyword arguments of the call under study
  bindRes,        \* what get_callargs_for_argspec returned or raised
  compatRes,      \* what is_argspec_compatible_with_types returned
  tup,            \* the argument of is_argument_tuple / unpack_args_from_tuple
  isArgTup,       \* what is_argument_tuple returned
  unpackRes,      \* what unpack_args_from_tuple returned or raised
  packRes,        \* what pack_args_into_anonymous_tuple returned
  parameter_type, \* wrap_as_zero_or_one_arg_callable's parameter_type
  unpack,         \* wrap_as_zero_or_one_arg_callable's unpack (True/False/None)
  wrapRes,        \* what wrap_as_zero_or_one_arg_callable returned or raised
  adapter_arg,    \* the value the returned adapter was invoked with
  callRes,        \* what the invocation of the adapter returned or raised
  funcCalls,      \* the calls the original callable received, in order
  cache,          \* PolymorphicFunction._concrete_function_cache
  pc,             \* per thread: its position inside PolymorphicFunction.__call__
  callType,       \* per thread: arg_type of the invocation in progress
  concrete_fn,    \* per thread: the local variable concrete_fn
  outcome,        \* per thread: how its last invocation ended
  factoryLog,     \* the factory's record of its calls: the type, and whether it failed
  invoked         \* the arg_type of every invocation of __call__ so far, in order

vars == <<phase, argspec, args, kwargs, bindRes, compatRes, tup, isArgTup,
          unpackRes, packRes, parameter_type, unpack, wrapRes, adapter_arg,
          callRes, funcCalls, cache, pc, callType, concrete_fn, outcome,
          factoryLog, invoked>>

binderVars == <<argspec, args, kwargs, bindRes, compatRes>>
tupleVars == <<tup, isArgTup, unpackRes, packRes>>
adapterVars ==
  <<parameter_type, unpack, wrapRes, adapter_arg, callRes, funcCalls>>
cacheVars == <<cache, pc, callType, concrete_fn, outcome, factoryLog, invoked>>

----------------------------------------------------------------------------
(* Bounds of the model. *)

MaxParams == 2     \* declared parameter names of an ArgSpec
MaxPos == 2        \* positional values of a call
MaxElems == 2      \* elements of a tuple value or tuple type
NumThreads == 2    \* threads that invoke one PolymorphicFunction
MaxCalls == 3      \* invocations of the PolymorphicFunction in one run

----------------------------------------------------------------------------
(* Python objects. *)

Obj(kind, tag, elems) == [kind |-> kind, tag |-> tag, elems |-> elems]

None == Obj("None", "", <<>>)
TensorType(tag) == Obj("TensorType", tag, <<>>)
NamedTupleType(elems) == Obj("NamedTupleType", "", elems)
AnonymousTuple(elems) == Obj("AnonymousTuple", "", elems)
PySpec(elems) == Obj("pyspec", "", elems)
Value(tag) == Obj("value", tag, <<>>)

Int32 == TensorType("int32")
Bool == TensorType("bool")
IntVec2 == TensorType("int32[2]")
IntVecAny == TensorType("int32[?]")

V5 == Value("5")
VTrue == Value("True")
Vec2 == Value("array([1, 2])")

Range(s) == {s[i] : i \in DOMAIN s}

SeqsUpTo(S, n) == UNION {[1..k -> S] : k \in 0..n}

\* types.to_type: a Type is returned as it is, a Python list of (name, type)
\* pairs becomes a NamedTupleType of the converted elements.
RECURSIVE to_type(_)
to_type(x) ==
  CASE x.kind = "pyspec" ->
         NamedTupleType([i \in DOMAIN x.elems |->
                           <<x.elems[i][1], to_type(x.elems[i][2])>>])
    [] OTHER -> x

\* type_utils.infer_type: the type of a runtime value.
RECURSIVE infer_type(_)
infer_type(v) ==
  CASE v.kind = "AnonymousTuple" ->
         NamedTupleType([i \in DOMAIN v.elems |->
                           <<v.elems[i][1], infer_type(v.elems[i][2])>>])
    [] v.kind = "value" /\ v.tag = "5" -> Int32
    [] v.kind = "value" /\ v.tag = "True" -> Bool
    [] v.kind = "value" /\ v.tag = "array([1, 2])" -> IntVec2
    [] OTHER -> v

\* types.Type.is_assignable_from: target.is_assignable_from(source).
RECURSIVE is_assignable_from(_, _)
is_assignable_from(target, source) ==
  CASE target.kind = "TensorType" ->
         /\ source.kind = "TensorType"
         /\ \/ target.tag = source.tag
            \/ target.tag = "int32[?]" /\ source.tag = "int32[2]"
    [] target.kind = "NamedTupleType" ->
         /\ source.kind = "NamedTupleType"
         /\ Len(target.elems) = Len(source.elems)
         /\ \A i \in DOMAIN target.elems :
              /\ target.elems[i][1] = source.elems[i][1]
              /\ is_assignable_from(target.elems[i][2], source.elems[i][2])
    [] OTHER -> FALSE

----------------------------------------------------------------------------
(* inspect.ArgSpec(args, varargs, keywords, defaults). *)

ParamNames == <<"x", "y", "z", "u", "v">>

ArgSpec(names, varargs, keywords, defaults) ==
  [args |-> names, varargs |-> varargs, keywords |-> keywords,
   defaults |-> defaults]

DefaultValues == {V5, Vec2, None}

ArgSpecs ==
  UNION {{ArgSpec(SubSeq(ParamNames, 1, n), va, kw, ds) :
            va \in {"", "args"}, kw \in {"", "kwargs"},
            ds \in SeqsUpTo(DefaultValues, n)} : n \in 0..MaxParams}

\* The types a caller supplies for the parameters.
SuppliedTypes == {Int32, IntVecAny}

\* The names a caller may use as keywords: the declarable names and a name
\* no ArgSpec declares.
KwNames == {ParamNames[i] : i \in 1..MaxParams} \cup {"other"}

KwargsOver(S) == UNION {[N -> S] : N \in SUBSET KwNames}

----------------------------------------------------------------------------
(* get_callargs_for_argspec. *)

Raise(kind) == [ok |-> FALSE, err |-> kind, result |-> <<>>]
Return(result) == [ok |-> TRUE, err |-> "", result |-> result]
NoResult == Raise("not called")

\* result[key] = value on a Python dict.
SetItem(dict, key, value) == (key :> value) @@ dict

\* args[n:] on a Python tuple (n counted from 0).
SliceFrom(s, n) == IF n >= Len(s) THEN <<>> ELSE SubSeq(s, n + 1, Len(s))

\* One pass of the loop over enumerate(argspec.args), for the i-th declared
\* name (i counts from 1; Python's idx is i - 1): the value bound to the
\* name, or the TypeError raised.
BindOne_EqualValuesPass(spec, a, kw, i) ==
  LET num_specargs_without_defaults == Len(spec.args) - Len(spec.defaults)
      idx == i - 1
      specarg == spec.args[i]
  IN  IF idx < Len(a)
        THEN IF specarg \in DOMAIN kw /\ kw[specarg] # a[i]
               THEN Raise("DuplicateArgument")
               ELSE Return(a[i])
      ELSE IF specarg \in DOMAIN kw THEN Return(kw[specarg])
      ELSE IF idx >= num_specargs_without_defaults
        THEN Return(spec.defaults[idx - num_specargs_without_defaults + 1])
      ELSE Raise("MissingArgument")

BindOne(spec, a, kw, i) ==
  LET num_specargs_without_defaults == Len(spec.args) - Len(spec.defaults)
      idx == i - 1
      specarg == spec.args[i]
  IN  IF idx < Len(a)
        THEN IF specarg \in DOMAIN kw
               THEN Raise("DuplicateArgument")
               ELSE Return(a[i])
      ELSE IF specarg \in DOMAIN kw THEN Return(kw[specarg])
      ELSE IF idx >= num_specargs_without_defaults
        THEN Return(spec.defaults[idx - num_specargs_without_defaults + 1])
      ELSE Raise("MissingArgument")

\* The loop over enumerate(argspec.args) from the i-th declared name on: it
\* ends at the first TypeError.
RECURSIVE BindLoop(_, _, _, _, _)
BindLoop(spec, a, kw, i, result) ==
  IF i > Len(spec.args) THEN Return(result)
  ELSE LET one == BindOne(spec, a, kw, i)
       IN  IF one.ok
             THEN BindLoop(spec, a, kw, i + 1,
                           SetItem(result, spec.args[i], one.result))
             ELSE one

\* Lines 138-146 with the collectors left out of the result.
BindTail_NoCollectors(spec, a, kw, result) ==
  LET unused_kwargs == [k \in {n \in DOMAIN kw : n \notin DOMAIN result} |-> kw[k]]
  IN  IF spec.keywords # "" THEN Return(result)
      ELSE IF DOMAIN unused_kwargs # {} THEN Raise("UnexpectedKeywordArguments")
      ELSE Return(result)

\* Lines 138-146: the collectors and the leftover keywords.
BindTail(spec, a, kw, result) ==
  LET num_specargs == Len(spec.args)
      unused_kwargs == [k \in {n \in DOMAIN kw : n \notin DOMAIN result} |-> kw[k]]
      r1 == IF spec.varargs # ""
              THEN SetItem(result, spec.varargs, SliceFrom(a, num_specargs))
              ELSE result
  IN  IF spec.keywords # "" THEN Return(SetItem(r1, spec.keywords, unused_kwargs))
      ELSE IF DOMAIN unused_kwargs # {} THEN Raise("UnexpectedKeywordArguments")
      ELSE Return(r1)

get_callargs_for_argspec(spec, a, kw) ==
  LET num_specargs == Len(spec.args)
  IN  IF Len(a) > num_specargs /\ spec.varargs = ""
        THEN Raise("TooManyPositionalArguments")
        ELSE LET r == BindLoop(spec, a, kw, 1, <<>>)
             IN  IF r.ok THEN BindTail(spec, a, kw, r.result) ELSE r

----------------------------------------------------------------------------
(* is_argspec_compatible_with_types. *)

\* One pass of the loop over enumerate(argspec.defaults), for the i-th
\* default (i counts from 1): FALSE when the pass returns False.
DefaultOk_Swapped(spec, callargs, i) ==
  LET num_specargs_without_defaults == Len(spec.args) - Len(spec.defaults)
      default_value == spec.defaults[i]
      arg_name == spec.args[num_specargs_without_defaults + i]
      call_arg == callargs[arg_name]
  IN  IF default_value # None /\ call_arg # default_value
        THEN is_assignable_from(infer_type(default_value), to_type(call_arg))
        ELSE TRUE

DefaultOk(spec, callargs, i) ==
  LET num_specargs_without_defaults == Len(spec.args) - Len(spec.defaults)
      default_value == spec.defaults[i]
      arg_name == spec.args[num_specargs_without_defaults + i]
      call_arg == callargs[arg_name]
  IN  IF default_value # None /\ call_arg # default_value
        THEN LET arg_type == to_type(call_arg)
                 default_type == infer_type(default_value)
             IN  is_assignable_from(arg_type, default_type)
        ELSE TRUE

\* The loop over enumerate(argspec.defaults) from the i-th default on.
RECURSIVE DefaultsLoop(_, _, _)
DefaultsLoop(spec, callargs, i) ==
  IF i > Len(spec.defaults) THEN TRUE
  ELSE IF ~DefaultOk(spec, callargs, i) THEN FALSE
  ELSE DefaultsLoop(spec, callargs, i + 1)

is_argspec_compatible_with_types(spec, a, kw) ==
  LET r == get_callargs_for_argspec(spec, a, kw)
  IN  IF ~r.ok THEN FALSE
      ELSE IF Len(spec.defaults) = 0 THEN TRUE
      ELSE DefaultsLoop(spec, r.result, 1)

----------------------------------------------------------------------------
(* is_argument_tuple, unpack_args_from_tuple,                             *)
(* pack_args_into_anonymous_tuple.                                        *)

\* Lines 203-210 and 235-243: the elements of an AnonymousTuple, or of the
\* NamedTupleType that types.to_type() makes of the argument; not ok when the
\* argument is neither.
Elements(x) ==
  IF x.kind = "AnonymousTuple" THEN Return(x.elems)
  ELSE LET t == to_type(x)
       IN  IF t.kind = "NamedTupleType" THEN Return(t.elems)
           ELSE Raise("NotArgumentTuple")

Min(m, n) == IF m < n THEN m ELSE n

\* The loop of lines 213-217 from the i-th element on (Python's idx is
\* i - 1), ending in max_unnamed < min_named.
RECURSIVE ScanNames(_, _, _, _)
ScanNames(elements, i, max_unnamed, min_named) ==
  IF i > Len(elements) THEN max_unnamed < min_named
  ELSE IF elements[i][1] # ""
    THEN ScanNames(elements, i + 1, max_unnamed, Min(min_named, i - 1))
    ELSE ScanNames(elements, i + 1, i - 1, min_named)

is_argument_tuple(arg) ==
  LET e == Elements(arg)
  IN  IF ~e.ok THEN FALSE
      ELSE ScanNames(e.result, 1, -1, Len(e.result))

\* The loop of lines 246-250 from the i-th element on.
RECURSIVE SplitElements(_, _, _, _)
SplitElements(elements, i, a, kw) ==
  IF i > Len(elements) THEN [args |-> a, kwargs |-> kw]
  ELSE IF elements[i][1] # ""
    THEN SplitElements(elements, i + 1, a,
                       SetItem(kw, elements[i][1], elements[i][2]))
    ELSE SplitElements(elements, i + 1, Append(a, elements[i][2]), kw)

unpack_args_from_tuple(tuple_with_args) ==
  LET e == Elements(tuple_with_args)
  IN  IF ~e.ok THEN e
      ELSE Return(SplitElements(e.result, 1, <<>>, <<>>))

\* The orders in which iterating a Python 2 dict with these keys can yield
\* them: the language leaves the order open.
IterOrders(dict) ==
  {o \in [1..Cardinality(DOMAIN dict) -> DOMAIN dict] : Range(o) = DOMAIN dict}

\* pack_args_into_anonymous_tuple(*a, **kw), kw.iteritems() yielding the keys
\* in the order given.
pack_args_into_anonymous_tuple(a, kw, order) ==
  AnonymousTuple([i \in DOMAIN a |-> <<"", a[i]>>] \o
                 [i \in DOMAIN order |-> <<order[i], kw[order[i]]>>])

----------------------------------------------------------------------------
(* wrap_as_zero_or_one_arg_callable.                                      *)

\* The callables wrap_as_zero_or_one_arg_callable returns.
ZeroArgAdapter == [kind |-> "zero-arg"]
UnpackAdapter(arg_types, kwarg_types) ==
  [kind |-> "unpack", arg_types |-> arg_types, kwarg_types |-> kwarg_types]
SingleAdapter(ptype) == [kind |-> "single", parameter_type |-> ptype]

\* Lines 333-334, parameter_type already converted by types.to_type().
unpack_required(spec, ptype) ==
  ~is_argspec_compatible_with_types(spec, <<ptype>>, <<>>)

\* Lines 340-345.
unpack_possible(spec, ptype) ==
  IF is_argument_tuple(ptype)
    THEN LET split == unpack_args_from_tuple(ptype).result
         IN  is_argspec_compatible_with_types(spec, split.args, split.kwargs)
    ELSE FALSE

\* Lines 335-368 with the test for neither form made first.
Resolve_EitherFormFirst(required, possible, preference) ==
  IF required /\ ~possible THEN "CannotAcceptEitherForm"
  ELSE IF required /\ preference = "False" THEN "CannotAcceptAsSingleArgument"
  ELSE IF ~possible /\ preference = "True" THEN "CannotAcceptAsMultipleArguments"
  ELSE IF ~required /\ possible /\ preference = "None"
    THEN "AmbiguousUnpackingChoice"
  ELSE IF preference = "None"
    THEN IF required # possible THEN "AssertionError"
         ELSE IF possible THEN "unpack" ELSE "single"
  ELSE IF preference = "True" THEN "unpack" ELSE "single"

\* Lines 335-368 without the test for ambiguity.
Resolve_NoAmbiguityTest(required, possible, preference) ==
  IF required /\ preference = "False" THEN "CannotAcceptAsSingleArgument"
  ELSE IF ~possible /\ preference = "True" THEN "CannotAcceptAsMultipleArguments"
  ELSE IF required /\ ~possible THEN "CannotAcceptEitherForm"
  ELSE IF preference = "None"
    THEN IF possible THEN "unpack" ELSE "single"
  ELSE IF preference = "True" THEN "unpack" ELSE "single"

\* Lines 335-368: the TypeError raised, the failed assert, or the value of
\* `unpack` that line 369 tests ("unpack" for True, "single" for False).
\* preference is the caller's unpack: "True", "False" or "None".
Resolve(required, possible, preference) ==
  IF required /\ preference = "False" THEN "CannotAcceptAsSingleArgument"
  ELSE IF ~possible /\ preference = "True" THEN "CannotAcceptAsMultipleArguments"
  ELSE IF required /\ ~possible THEN "CannotAcceptEitherForm"
  ELSE IF ~required /\ possible /\ preference = "None"
    THEN "AmbiguousUnpackingChoice"
  ELSE IF preference = "None"
    THEN IF required # possible THEN "AssertionError"
         ELSE IF possible THEN "unpack" ELSE "single"
  ELSE IF preference = "True" THEN "unpack" ELSE "single"

wrap_as_zero_or_one_arg_callable(spec, ptype, preference) ==
  LET converted == to_type(ptype)
  IN  IF converted = None
        THEN IF is_argspec_compatible_with_types(spec, <<>>, <<>>)
               THEN Return(ZeroArgAdapter)
               ELSE Raise("IncompatibleNoParameterSignature")
        ELSE LET decision == Resolve(unpack_required(spec, converted),
                                     unpack_possible(spec, converted),
                                     preference)
                 split == unpack_args_from_tuple(converted).result
             IN  IF decision = "unpack"
                   THEN Return(UnpackAdapter(split.args, split.kwargs))
                 ELSE IF decision = "single"
                   THEN Return(SingleAdapter(converted))
                 ELSE Raise(decision)

----------------------------------------------------------------------------
(* The adapters wrap_as_zero_or_one_arg_callable returns, invoked.        *)

\* How an invocation of an adapter ends: the TypeError (or lookup error) it
\* raises, with the position or the name of the element it is about, or the
\* value the original callable returned.
AdapterRaise(kind, position, name) ==
  [ok |-> FALSE, err |-> kind, position |-> position, name |-> name]
AdapterReturn == [ok |-> TRUE, err |-> "", position |-> -1, name |-> ""]
NotInvoked == AdapterRaise("not invoked", -1, "")

\* One call of the original callable: func(*args, **kwargs).
FuncCall(a, kw) == [args |-> a, kwargs |-> kw]

\* An invocation's end together with the calls of func it made.
Ended(res, calls) == [res |-> res, calls |-> calls]

\* arg[idx] on an AnonymousTuple: the element at that index, named or not.
GetItem(t, idx) ==
  IF idx < Len(t.elems) THEN Return(t.elems[idx + 1][2])
  ELSE Raise("IndexError")

\* getattr(arg, name) on an AnonymousTuple: the element of that name.
GetAttr(t, name) ==
  IF \E j \in DOMAIN t.elems : t.elems[j][1] = name
    THEN Return(t.elems[CHOOSE j \in DOMAIN t.elems : t.elems[j][1] = name][2])
    ELSE Raise("AttributeError")

\* The loop of lines 395-403 from the i-th positional type on (Python's idx
\* is i - 1); a holds the values appended to args so far.
RECURSIVE PositionalLoop(_, _, _, _)
PositionalLoop(arg_types, t, i, a) ==
  IF i > Len(arg_types) THEN [ok |-> TRUE, args |-> a, res |-> AdapterReturn]
  ELSE LET element_value == GetItem(t, i - 1)
       IN  IF ~element_value.ok
             THEN [ok |-> FALSE, args |-> a,
                   res |-> AdapterRaise(element_value.err, i - 1, "")]
           ELSE IF ~is_assignable_from(arg_types[i],
                                       infer_type(element_value.result))
             THEN [ok |-> FALSE, args |-> a,
                   res |-> AdapterRaise("TypeMismatch", i - 1, "")]
           ELSE PositionalLoop(arg_types, t, i + 1,
                               Append(a, element_value.result))

\* The loop of lines 405-413 from the i-th name that kwarg_types.iteritems()
\* yields on; kw holds the entries of kwargs set so far.
RECURSIVE NamedLoop(_, _, _, _, _)
NamedLoop(kwarg_types, t, order, i, kw) ==
  IF i > Len(order) THEN [ok |-> TRUE, kwargs |-> kw, res |-> AdapterReturn]
  ELSE LET name == order[i]
           element_value == GetAttr(t, name)
       IN  IF ~element_value.ok
             THEN [ok |-> FALSE, kwargs |-> kw,
                   res |-> AdapterRaise(element_value.err, -1, name)]
           ELSE IF ~is_assignable_from(kwarg_types[name],
                                       infer_type(element_value.result))
             THEN [ok |-> FALSE, kwargs |-> kw,
                   res |-> AdapterRaise("TypeMismatch", -1, name)]
           ELSE NamedLoop(kwarg_types, t, order, i + 1,
                          SetItem(kw, name, element_value.result))

\* Lines 370-414, kwarg_types.iteritems() yielding the names in the order
\* given: the check of line 390, the two loops, then func(*args, **kwargs).
unpack_and_call(arg_types, kwarg_types, t, order) ==
  IF t.kind # "AnonymousTuple"
    THEN Ended(AdapterRaise("NotArgumentTuple", -1, ""), <<>>)
  ELSE LET p == PositionalLoop(arg_types, t, 1, <<>>)
       IN  IF ~p.ok THEN Ended(p.res, <<>>)
           ELSE LET n == NamedLoop(kwarg_types, t, order, 1, <<>>)
                IN  IF ~n.ok THEN Ended(n.res, <<>>)
                    ELSE Ended(AdapterReturn, <<FuncCall(p.args, n.kwargs)>>)

\* Lines 425-430: _call(func, parameter_type, arg).
single_call(ptype, t) ==
  IF ~is_assignable_from(ptype, infer_type(t))
    THEN Ended(AdapterRaise("TypeMismatch", -1, ""), <<>>)
    ELSE Ended(AdapterReturn, <<FuncCall(<<t>>, <<>>)>>)

\* Line 326: lambda: func().
zero_arg_call == Ended(AdapterReturn, <<FuncCall(<<>>, <<>>)>>)

----------------------------------------------------------------------------
(* Values the variables of the other scenarios hold while one runs. *)

IdleBinder ==
  /\ argspec = ArgSpec(<<>>, "", "", <<>>)
  /\ args = <<>>
  /\ kwargs = <<>>
  /\ bindRes = NoResult
  /\ compatRes = FALSE

IdleTuple ==
  /\ tup = None
  /\ isArgTup = FALSE
  /\ unpackRes = NoResult
  /\ packRes = None

IdleAdapter ==
  /\ parameter_type = None
  /\ unpack = "None"
  /\ wrapRes = NoResult
  /\ adapter_arg = None
  /\ callRes = NotInvoked
  /\ funcCalls = <<>>

IdleCache ==
  /\ cache = <<>>
  /\ pc = <<>>
  /\ callType = <<>>
  /\ concrete_fn = <<>>
  /\ outcome = <<>>
  /\ factoryLog = <<>>
  /\ invoked = <<>>

----------------------------------------------------------------------------
(* The binder and the compatibility checker on every ArgSpec and call.    *)

InitBind ==
  /\ phase = "input"
  /\ argspec \in ArgSpecs
  /\ args \in SeqsUpTo(SuppliedTypes, MaxPos)
  /\ kwargs \in KwargsOver(SuppliedTypes)
  /\ bindRes = NoResult
  /\ compatRes = FALSE
  /\ IdleTuple /\ IdleAdapter /\ IdleCache

Bind ==
  /\ phase = "input"
  /\ bindRes' = get_callargs_for_argspec(argspec, args, kwargs)
  /\ phase' = "bound"
  /\ UNCHANGED <<argspec, args, kwargs, compatRes, tupleVars, adapterVars,
                 cacheVars>>

Compat ==
  /\ phase = "bound"
  /\ compatRes' = is_argspec_compatible_with_types(argspec, args, kwargs)
  /\ phase' = "checked"
  /\ UNCHANGED <<argspec, args, kwargs, bindRes, tupleVars, adapterVars,
                 cacheVars>>

NextBind == Bind \/ Compat

SpecBind == InitBind /\ [][NextBind]_vars

----------------------------------------------------------------------------
(* Claims about the binder and the compatibility checker (SpecBind).      *)

\* The declared names bound both by a positional value at their index and by
\* a keyword.
DuplicatedNames ==
  {argspec.args[i] : i \in {j \in DOMAIN argspec.args :
                              j <= Len(args) /\ argspec.args[j] \in DOMAIN kwargs}}

ExcessPositional == Len(args) > Len(argspec.args) /\ argspec.varargs = ""

\* C6 as stated: a call that binds some declared name both positionally and
\* by keyword fails with DuplicateArgument, whatever else the call contains.
C6_DuplicateAlways ==
  (phase = "bound" /\ DuplicatedNames # {})
    => bindRes = Raise("DuplicateArgument")

\* C6 amended: a call that binds some declared name both positionally and by
\* keyword fails with DuplicateArgument, whatever the two values, whatever
\* names are missing and whatever unexpected keywords it has, unless it has
\* more positional values than declared names and no variadic-positional
\* collector: then it fails with TooManyPositionalArguments.
C6_DuplicateUnlessExcess ==
  (phase = "bound" /\ DuplicatedNames # {})
    => bindRes = IF ExcessPositional THEN Raise("TooManyPositionalArguments")
                                     ELSE Raise("DuplicateArgument")

\* A duplicate with equal values, beside a missing name and an unexpected
\* keyword, was rejected as a duplicate.
C6_Witness ==
  /\ phase = "bound"
  /\ argspec.args = <<"x", "y">> /\ argspec.defaults = <<>>
  /\ argspec.keywords = ""
  /\ Len(args) = 1 /\ DOMAIN kwargs = {"x", "other"} /\ kwargs["x"] = args[1]
  /\ bindRes = Raise("DuplicateArgument")

\* The call covers every declared name exactly once, by position or by
\* keyword, with no excess positional or keyword value.
CoversExactly ==
  /\ Len(args) <= Len(argspec.args)
  /\ DOMAIN kwargs \subseteq Range(argspec.args)
  /\ \A i \in DOMAIN argspec.args :
       (i <= Len(args)) # (argspec.args[i] \in DOMAIN kwargs)

Collectors ==
  (IF argspec.varargs # "" THEN {argspec.varargs} ELSE {}) \cup
  (IF argspec.keywords # "" THEN {argspec.keywords} ELSE {})

\* C7: a call that covers every declared name exactly once binds, the keys
\* of the binding are the declared names and the declared collectors, and
\* each declared name maps to the value supplied for it.
C7_FullCoverBinds ==
  (phase = "bound" /\ CoversExactly)
    => /\ bindRes.ok
       /\ DOMAIN bindRes.result = Range(argspec.args) \cup Collectors
       /\ \A i \in DOMAIN argspec.args :
            bindRes.result[argspec.args[i]] =
              IF i <= Len(args) THEN args[i] ELSE kwargs[argspec.args[i]]

\* Two names, one covered by position and one by keyword, a default that is
\* not used, and both collectors declared.
C7_Witness ==
  /\ phase = "bound" /\ CoversExactly
  /\ Len(argspec.args) = 2 /\ Len(args) = 1 /\ Len(argspec.defaults) = 1
  /\ argspec.varargs # "" /\ argspec.keywords # ""
  /\ bindRes.ok /\ Cardinality(DOMAIN bindRes.result) = 4

\* The defaulted parameters whose type check is_compatible makes: the default
\* is not None and the object bound to the name is not the default itself.
CheckedDefaults ==
  {i \in DOMAIN argspec.defaults :
     LET name == argspec.args[Len(argspec.args) - Len(argspec.defaults) + i]
     IN  /\ argspec.defaults[i] # None
         /\ bindRes.result[name] # argspec.defaults[i]}

\* C8: is_compatible is true exactly when bind succeeds and, for every
\* defaulted parameter with a default other than None that is bound to
\* another object than its default, the supplied type is assignable from the
\* inferred type of the default.
C8_CompatibleIff ==
  phase = "checked" =>
    compatRes =
      (/\ bindRes.ok
       /\ \A i \in CheckedDefaults :
            LET name == argspec.args[Len(argspec.args) - Len(argspec.defaults) + i]
            IN  is_assignable_from(bindRes.result[name],
                                   infer_type(argspec.defaults[i])))

\* Spec [x, y=5] (the scenario's [a, b=5]) called with a type for y that is
\* not assignable from int32: bind succeeded and is_compatible returned false.
C8_Witness ==
  /\ phase = "checked"
  /\ argspec.args = <<"x", "y">> /\ argspec.defaults = <<V5>>
  /\ Len(args) = 2 /\ args[2] = IntVecAny
  /\ bindRes.ok /\ compatRes = FALSE

----------------------------------------------------------------------------
(* The tuple classifier on tuple values, tuple types, type specs, a tensor *)
(* type and None.                                                          *)

ElemNames == {"", "x", "y"}

\* Sequences of at most MaxElems (name, value) pairs, no name used twice.
ElemSeqs(S) ==
  {e \in SeqsUpTo(ElemNames \X S, MaxElems) :
     \A i, j \in DOMAIN e : (i # j /\ e[i][1] # "") => e[i][1] # e[j][1]}

TupleInputs ==
  {AnonymousTuple(e) : e \in ElemSeqs({V5, VTrue})} \cup
  {NamedTupleType(e) : e \in ElemSeqs({Int32, Bool})} \cup
  {PySpec(e) : e \in ElemSeqs({Int32, Bool})} \cup
  {Int32, None}

InitTuple ==
  /\ phase = "input"
  /\ tup \in TupleInputs
  /\ isArgTup = FALSE
  /\ unpackRes = NoResult
  /\ packRes = None
  /\ IdleBinder /\ IdleAdapter /\ IdleCache

Classify ==
  /\ phase = "input"
  /\ isArgTup' = is_argument_tuple(tup)
  /\ phase' = "classified"
  /\ UNCHANGED <<tup, unpackRes, packRes, binderVars, adapterVars, cacheVars>>

Unpack ==
  /\ phase = "classified"
  /\ unpackRes' = unpack_args_from_tuple(tup)
  /\ phase' = "unpacked"
  /\ UNCHANGED <<tup, isArgTup, packRes, binderVars, adapterVars, cacheVars>>

Pack ==
  /\ phase = "unpacked"
  /\ unpackRes.ok
  /\ \E order \in IterOrders(unpackRes.result.kwargs) :
       packRes' = pack_args_into_anonymous_tuple(unpackRes.result.args,
                                                 unpackRes.result.kwargs, order)
  /\ phase' = "packed"
  /\ UNCHANGED <<tup, isArgTup, unpackRes, binderVars, adapterVars, cacheVars>>

NextTuple == Classify \/ Unpack \/ Pack

SpecTuple == InitTuple /\ [][NextTuple]_vars

----------------------------------------------------------------------------
(* Claims about the tuple classifier (SpecTuple).                         *)

\* C9: for every x on which is_argument_tuple is true, packing what unpack
\* returned gives a tuple with the elements of x: as many, the same names at
\* the same indices and the same values in the same order.
C9_RoundTrip ==
  (phase = "packed" /\ isArgTup) => packRes.elems = Elements(tup).result

\* C10: unpack fails with NotArgumentTuple on every input on which
\* is_argument_tuple is false, and returns a pair only on inputs on which it
\* is true.
C10_UnpackRequiresArgumentTuple ==
  phase \in {"unpacked", "packed"} =>
    /\ ~isArgTup => unpackRes = Raise("NotArgumentTuple")
    /\ unpackRes.ok => isArgTup

----------------------------------------------------------------------------
(* The adapter builder on every ArgSpec, parameter type and preference   *)
(* (Spec), and the adapter it returns invoked once (SpecCall).            *)

ParameterTypes ==
  {NamedTupleType(e) : e \in ElemSeqs(SuppliedTypes)} \cup
  {PySpec(e) : e \in ElemSeqs(SuppliedTypes)} \cup
  SuppliedTypes \cup {None}

Init ==
  /\ phase = "input"
  /\ argspec \in ArgSpecs
  /\ parameter_type \in ParameterTypes
  /\ unpack \in {"True", "False", "None"}
  /\ wrapRes = NoResult
  /\ adapter_arg = None /\ callRes = NotInvoked /\ funcCalls = <<>>
  /\ args = <<>> /\ kwargs = <<>> /\ bindRes = NoResult /\ compatRes = FALSE
  /\ IdleTuple /\ IdleCache

Wrap ==
  /\ phase = "input"
  /\ wrapRes' = wrap_as_zero_or_one_arg_callable(argspec, parameter_type, unpack)
  /\ phase' = "wrapped"
  /\ UNCHANGED <<parameter_type, unpack, adapter_arg, callRes, funcCalls,
                 binderVars, tupleVars, cacheVars>>

Next == Wrap

Spec == Init /\ [][Next]_vars

\* The values an adapter is invoked with: tuples of a scalar and a vector,
\* named or not, and the two values on their own.
IncomingValues ==
  {AnonymousTuple(e) : e \in ElemSeqs({V5, Vec2})} \cup {V5, Vec2}

\* The caller invokes the adapter that Wrap returned: with no argument when
\* it is the zero-argument adapter, with one incoming value otherwise.
CallAdapter ==
  /\ phase = "wrapped"
  /\ wrapRes.ok
  /\ LET adapter == wrapRes.result
     IN  \E t \in IF adapter.kind = "zero-arg" THEN {None} ELSE IncomingValues :
         \E order \in IF adapter.kind = "unpack"
                        THEN IterOrders(adapter.kwarg_types) ELSE {<<>>} :
           LET end == CASE adapter.kind = "unpack" ->
                             unpack_and_call(adapter.arg_types,
                                             adapter.kwarg_types, t, order)
                        [] adapter.kind = "single" ->
                             single_call(adapter.parameter_type, t)
                        [] OTHER -> zero_arg_call
           IN  /\ adapter_arg' = t
               /\ callRes' = end.res
               /\ funcCalls' = funcCalls \o end.calls
  /\ phase' = "invoked"
  /\ UNCHANGED <<parameter_type, unpack, wrapRes, binderVars, tupleVars,
                 cacheVars>>

NextCall == Wrap \/ CallAdapter

SpecCall == Init /\ [][NextCall]_vars

----------------------------------------------------------------------------
(* Claims about the adapter builder (Spec).                               *)

Required == unpack_required(argspec, to_type(parameter_type))
Possible == unpack_possible(argspec, to_type(parameter_type))
Present == to_type(parameter_type) # None

\* The outcome the resolution table gives, rows in order.
TableOutcome ==
  LET row1 == Required /\ unpack = "False"
      row2 == ~Possible /\ unpack = "True"
      row3 == Required /\ ~Possible
      row4 == ~Required /\ Possible /\ unpack = "None"
  IN  CASE row1 -> "CannotAcceptAsSingleArgument"
        [] ~row1 /\ row2 -> "CannotAcceptAsMultipleArguments"
        [] ~row1 /\ ~row2 /\ row3 -> "CannotAcceptEitherForm"
        [] ~row1 /\ ~row2 /\ ~row3 /\ row4 -> "AmbiguousUnpackingChoice"
        [] OTHER -> IF unpack = "True" \/ (unpack = "None" /\ Possible)
                      THEN "unpack" ELSE "single"

\* C1: for a present parameter_type the outcome is the one the resolution
\* table gives for (unpack_required, unpack_possible, preference), first
\* matching row winning; row 5 builds the unpacking adapter iff the
\* preference is Required, or Infer with unpack_possible; and the assert on
\* the Infer path never fails.
C1_ResolutionTable ==
  (phase = "wrapped" /\ Present) =>
    /\ wrapRes.err # "AssertionError"
    /\ IF TableOutcome \in {"unpack", "single"}
         THEN /\ wrapRes.ok /\ wrapRes.result.kind = TableOutcome
              /\ unpack = "None" => Required = Possible
         ELSE wrapRes = Raise(TableOutcome)

\* Row 5 on the Infer path: unpacking is required and possible, and the
\* unpacking adapter was built.
C1_Witness ==
  /\ phase = "wrapped" /\ Present /\ unpack = "None"
  /\ Required /\ Possible
  /\ wrapRes.ok /\ wrapRes.result.kind = "unpack"

SingleOk ==
  is_argspec_compatible_with_types(argspec, <<to_type(parameter_type)>>, <<>>)
UnpackedOk ==
  /\ is_argument_tuple(to_type(parameter_type))
  /\ LET split == unpack_args_from_tuple(to_type(parameter_type)).result
     IN  is_argspec_compatible_with_types(argspec, split.args, split.kwargs)

\* C2 as stated: with preference Infer, build_adapter fails with
\* AmbiguousUnpackingChoice when both conventions are satisfiable and
\* succeeds in every other case.
C2_InferSucceedsUnlessAmbiguous ==
  (phase = "wrapped" /\ Present /\ unpack = "None") =>
    IF SingleOk /\ UnpackedOk THEN wrapRes = Raise("AmbiguousUnpackingChoice")
                              ELSE wrapRes.ok

\* C2 amended: with preference Infer, build_adapter fails with
\* AmbiguousUnpackingChoice when both conventions are satisfiable, fails with
\* CannotAcceptEitherForm when neither is, and when exactly one is it
\* succeeds and returns the adapter of that convention: the single-argument
\* adapter for the parameter type, or the unpacking adapter for the
\* positional and keyword types of the parameter type.
C2_InferByConvention ==
  (phase = "wrapped" /\ Present /\ unpack = "None") =>
    wrapRes =
      IF SingleOk /\ UnpackedOk THEN Raise("AmbiguousUnpackingChoice")
      ELSE IF ~SingleOk /\ ~UnpackedOk THEN Raise("CannotAcceptEitherForm")
      ELSE IF SingleOk THEN Return(SingleAdapter(to_type(parameter_type)))
      ELSE LET e == Elements(to_type(parameter_type)).result
           IN  Return(UnpackAdapter(
                 [i \in 1..Cardinality({j \in DOMAIN e : e[j][1] = ""}) |-> e[i][2]],
                 [n \in {e[j][1] : j \in {k \in DOMAIN e : e[k][1] # ""}} |->
                    e[CHOOSE j \in DOMAIN e : e[j][1] = n][2]]))

\* Both conventions were satisfiable, no preference was given, and the call
\* failed as ambiguous.
C2_Witness ==
  /\ phase = "wrapped" /\ Present /\ unpack = "None"
  /\ SingleOk /\ UnpackedOk /\ Len(argspec.args) = 2
  /\ wrapRes = Raise("AmbiguousUnpackingChoice")

----------------------------------------------------------------------------
(* Claims about the invocation of the unpacking adapter (SpecCall).       *)

\* The unpacking adapter was built and has been invoked.
UnpackInvoked ==
  phase = "invoked" /\ wrapRes.ok /\ wrapRes.result.kind = "unpack"

\* The type the adapter expects of the j-th element of the incoming tuple:
\* the type at its position for an unnamed element, the type of its name for
\* a named one, None when the parameter type has no such element.
ExpectedType(j) ==
  LET adapter == wrapRes.result
      name == adapter_arg.elems[j][1]
  IN  IF name = ""
        THEN IF j <= Len(adapter.arg_types) THEN adapter.arg_types[j] ELSE None
        ELSE IF name \in DOMAIN adapter.kwarg_types
               THEN adapter.kwarg_types[name] ELSE None

\* The elements of the incoming tuple whose runtime-inferred type is not
\* assignable to the type expected of them.
Mismatches ==
  {j \in DOMAIN adapter_arg.elems :
     /\ ExpectedType(j) # None
     /\ ~is_assignable_from(ExpectedType(j),
                            infer_type(adapter_arg.elems[j][2]))}

\* The incoming tuple split as an argument tuple is: its unnamed elements in
\* order, its named elements under their names.
RawValues == SplitElements(adapter_arg.elems, 1, <<>>, <<>>)

\* C11: an unpacking adapter invoked with one incoming value either fails
\* without calling the original callable (the value is not an Argument
\* Tuple, or TypeMismatch at the first element whose runtime-inferred type is
\* not assignable to its expected type), or calls the original callable
\* exactly once with every unnamed element of the incoming tuple positionally
\* in the tuple's order and every named element under its name, nothing
\* dropped, added or moved, also when the incoming tuple has more elements
\* than the parameter type.
C11_UnpackForwardsEveryElement ==
  UnpackInvoked =>
    \/ /\ ~callRes.ok
       /\ funcCalls = <<>>
       /\ \/ /\ callRes.err = "NotArgumentTuple"
             /\ ~is_argument_tuple(adapter_arg)
          \/ /\ callRes.err = "TypeMismatch"
             /\ is_argument_tuple(adapter_arg)
             /\ Mismatches # {}
             /\ LET first == CHOOSE j \in Mismatches :
                               \A k \in Mismatches : j <= k
                IN  IF adapter_arg.elems[first][1] = ""
                      THEN callRes.position = first - 1
                      ELSE callRes.name = adapter_arg.elems[first][1]
    \/ /\ callRes.ok
       /\ is_argument_tuple(adapter_arg)
       /\ funcCalls = <<FuncCall(RawValues.args, RawValues.kwargs)>>

----------------------------------------------------------------------------
(* PolymorphicFunction: one instance, its factory, and the threads that   *)
(* invoke it. Each action is one step of __call__ that reads or writes    *)
(* the cache or calls out; threads interleave between the steps.          *)

Threads == 1..NumThreads

\* The concrete function the factory returns on its n-th call, made for
\* arg_type: a new object each time.
ConcreteFn(arg_type, n) == [kind |-> "concrete", type |-> arg_type, build |-> n]

\* repr(arg_type): the text of the type, as a sequence of tokens.
RECURSIVE ReprElems(_, _)
ReprElems(elems, i) ==
  IF i > Len(elems) THEN <<>>
  ELSE (IF elems[i][1] # "" THEN <<elems[i][1], "=">> ELSE <<>>) \o
       <<elems[i][2].tag>> \o
       (IF i < Len(elems) THEN <<",">> ELSE <<>>) \o
       ReprElems(elems, i + 1)

repr(arg_type) ==
  IF arg_type.kind = "NamedTupleType"
    THEN <<"<">> \o ReprElems(arg_type.elems, 1) \o <<">">>
    ELSE <<arg_type.tag>>

\* Line 472, a cache.get() that finds nothing.
CacheGet_AlwaysMiss(c, key) == None

\* Line 472: self._concrete_function_cache.get(key).
CacheGet(c, key) == IF key \in DOMAIN c THEN c[key] ELSE None

NoOutcome == [status |-> "none", type |-> None, fn |-> None]

\* The (args, kwargs) an invocation may pass: nothing, one int, one bool, or
\* one int by keyword. Their packed tuples have four distinct types.
CallInputs ==
  {<<(<<>>), (<<>>)>>, <<(<<V5>>), (<<>>)>>, <<(<<VTrue>>), (<<>>)>>,
   <<(<<>>), ("x" :> V5)>>}

InitCache ==
  /\ phase = "cache"
  /\ cache = <<>>
  /\ pc = [t \in Threads |-> "idle"]
  /\ callType = [t \in Threads |-> None]
  /\ concrete_fn = [t \in Threads |-> None]
  /\ outcome = [t \in Threads |-> NoOutcome]
  /\ factoryLog = <<>>
  /\ invoked = <<>>
  /\ IdleBinder /\ IdleTuple /\ IdleAdapter

\* Lines 469-471: pack the arguments, infer the type of the packed tuple.
Call(t) ==
  /\ pc[t] = "idle"
  /\ Len(invoked) < MaxCalls
  /\ \E in \in CallInputs :
       \E order \in IterOrders(in[2]) :
         LET packed_arg == pack_args_into_anonymous_tuple(in[1], in[2], order)
             arg_type == infer_type(packed_arg)
         IN  /\ callType' = [callType EXCEPT ![t] = arg_type]
             /\ invoked' = Append(invoked, arg_type)
  /\ pc' = [pc EXCEPT ![t] = "lookup"]
  /\ outcome' = [outcome EXCEPT ![t] = NoOutcome]
  /\ UNCHANGED <<phase, cache, concrete_fn, factoryLog, binderVars, tupleVars,
                 adapterVars>>

\* Lines 472-473: look the key up and test what was found.
Lookup(t) ==
  /\ pc[t] = "lookup"
  /\ LET found == CacheGet(cache, repr(callType[t]))
     IN  /\ concrete_fn' = [concrete_fn EXCEPT ![t] = found]
         /\ pc' = [pc EXCEPT ![t] = IF found = None THEN "build" ELSE "invoke"]
  /\ UNCHANGED <<phase, cache, callType, outcome, factoryLog, invoked,
                 binderVars, tupleVars, adapterVars>>

\* Line 474, the factory returning a concrete function.
Build(t) ==
  /\ pc[t] = "build"
  /\ factoryLog' = Append(factoryLog, [type |-> callType[t], ok |-> TRUE])
  /\ concrete_fn' = [concrete_fn EXCEPT
                       ![t] = ConcreteFn(callType[t], Len(factoryLog) + 1)]
  /\ pc' = [pc EXCEPT ![t] = "store"]
  /\ UNCHANGED <<phase, cache, callType, outcome, invoked, binderVars,
                 tupleVars, adapterVars>>

\* Line 474 with an entry stored for the key although the factory raised.
BuildFails_Poison(t) ==
  /\ pc[t] = "build"
  /\ factoryLog' = Append(factoryLog, [type |-> callType[t], ok |-> FALSE])
  /\ cache' = SetItem(cache, repr(callType[t]),
                      ConcreteFn(callType[t], Len(factoryLog) + 1))
  /\ outcome' = [outcome EXCEPT
                   ![t] = [status |-> "factory error", type |-> callType[t],
                           fn |-> None]]
  /\ pc' = [pc EXCEPT ![t] = "idle"]
  /\ UNCHANGED <<phase, callType, concrete_fn, invoked, binderVars,
                 tupleVars, adapterVars>>

\* Line 474, the factory raising: the exception leaves __call__.
BuildFails(t) ==
  /\ pc[t] = "build"
  /\ factoryLog' = Append(factoryLog, [type |-> callType[t], ok |-> FALSE])
  /\ outcome' = [outcome EXCEPT
                   ![t] = [status |-> "factory error", type |-> callType[t],
                           fn |-> None]]
  /\ pc' = [pc EXCEPT ![t] = "idle"]
  /\ UNCHANGED <<phase, cache, callType, concrete_fn, invoked, binderVars,
                 tupleVars, adapterVars>>

\* Line 475: self._concrete_function_cache[key] = concrete_fn.
Store(t) ==
  /\ pc[t] = "store"
  /\ cache' = SetItem(cache, repr(callType[t]), concrete_fn[t])
  /\ pc' = [pc EXCEPT ![t] = "invoke"]
  /\ UNCHANGED <<phase, callType, concrete_fn, outcome, factoryLog, invoked,
                 binderVars, tupleVars, adapterVars>>

\* Line 476: call the concrete function with the original arguments.
Invoke(t) ==
  /\ pc[t] = "invoke"
  /\ outcome' = [outcome EXCEPT
                   ![t] = [status |-> "returned", type |-> callType[t],
                           fn |-> concrete_fn[t]]]
  /\ concrete_fn' = [concrete_fn EXCEPT ![t] = None]
  /\ pc' = [pc EXCEPT ![t] = "idle"]
  /\ UNCHANGED <<phase, cache, callType, factoryLog, invoked, binderVars,
                 tupleVars, adapterVars>>

AllIdle == \A t \in Threads : pc[t] = "idle"

\* An invocation that starts when no other is in progress.
SeqCall(t) == AllIdle /\ Call(t)

\* Invocations one after the other.
NextSeq ==
  \E t \in Threads :
    SeqCall(t) \/ Lookup(t) \/ Build(t) \/ BuildFails(t) \/ Store(t) \/ Invoke(t)

SpecSeq == InitCache /\ [][NextSeq]_vars

\* Invocations by threads that interleave.
NextConc ==
  \E t \in Threads :
    Call(t) \/ Lookup(t) \/ Build(t) \/ BuildFails(t) \/ Store(t) \/ Invoke(t)

SpecConc == InitCache /\ [][NextConc]_vars

----------------------------------------------------------------------------
(* Claims about PolymorphicFunction (SpecSeq, SpecConc).                  *)

\* The factory calls made for arg_type, as positions in the factory's log.
BuildsOf(arg_type) == {i \in DOMAIN factoryLog : factoryLog[i].type = arg_type}

FactoryNeverFailed == \A i \in DOMAIN factoryLog : factoryLog[i].ok

\* C3: in a series of invocations one after the other whose factory calls
\* all succeed, the factory is called at most once per type, only for types
\* invoked; once the invocations are over it has been called exactly once
\* for each distinct type seen and its result is the entry under that type's
\* key; and an invocation that returned invoked the entry under its key.
C3_OneBuildPerType ==
  FactoryNeverFailed =>
    /\ \A i \in DOMAIN factoryLog :
         /\ factoryLog[i].type \in Range(invoked)
         /\ BuildsOf(factoryLog[i].type) = {i}
    /\ AllIdle =>
         /\ Len(factoryLog) = Cardinality(Range(invoked))
         /\ \A i \in DOMAIN factoryLog :
              /\ repr(factoryLog[i].type) \in DOMAIN cache
              /\ cache[repr(factoryLog[i].type)] =
                   ConcreteFn(factoryLog[i].type, i)
    /\ \A t \in Threads :
         outcome[t].status = "returned" =>
           /\ repr(outcome[t].type) \in DOMAIN cache
           /\ outcome[t].fn = cache[repr(outcome[t].type)]

\* Three invocations with two distinct types, all over: two factory calls.
C3_Witness ==
  /\ AllIdle /\ FactoryNeverFailed
  /\ Len(invoked) = 3 /\ Cardinality(Range(invoked)) = 2
  /\ invoked[1] = invoked[3]
  /\ Len(factoryLog) = 2

\* C4: whatever the interleaving, an entry once stored is never replaced or
\* removed (one build per type, or redundant builds that store
\* idempotently; no store lost), and every caller that returns invoked a
\* concrete function the factory built for the type of its arguments.
C4_ProtectedCache ==
  [][/\ \A k \in DOMAIN cache : k \in DOMAIN cache' /\ cache'[k] = cache[k]
     /\ \A t \in Threads :
          outcome'[t].status = "returned" =>
            /\ outcome'[t].fn.type = outcome'[t].type
            /\ outcome'[t].fn.build \in
                 {i \in DOMAIN factoryLog' :
                    factoryLog'[i].type = outcome'[t].type /\ factoryLog'[i].ok}]_vars

\* C5: a step in which the factory fails on a miss hands the failure to the
\* caller and leaves the cache as it was, with no entry for that type; a
\* type for which no factory call succeeded has no entry, and a lookup that
\* finds no entry goes on to call the factory.
C5_FailedBuildNotCached ==
  [][/\ \A t \in Threads :
          (pc[t] = "build" /\ pc'[t] = "idle") =>
            /\ outcome'[t] = [status |-> "factory error", type |-> callType[t],
                              fn |-> None]
            /\ cache' = cache
            /\ repr(callType[t]) \notin DOMAIN cache'
     /\ \A t \in Threads :
          (pc[t] = "lookup" /\ pc'[t] # "lookup"
             /\ \A i \in BuildsOf(callType[t]) : ~factoryLog[i].ok) =>
            pc'[t] = "build"]_vars

\* The factory failed for a type while another type had an entry, the entry
\* is still there, and a later invocation with the type of the failure
\* called the factory again.
C5_Witness ==
  /\ Len(factoryLog) = 3
  /\ factoryLog[1].ok /\ ~factoryLog[2].ok /\ factoryLog[3].ok
  /\ factoryLog[1].type # factoryLog[2].type
  /\ factoryLog[3].type = factoryLog[2].type
  /\ cache[repr(factoryLog[1].type)] = ConcreteFn(factoryLog[1].type, 1)

=============================================================================
